---------------------------- MODULE Spec2Model ----------------------------
(***************************************************************************)
(* StreamingTopoART (src/src/classes/streamingtopoart.py): an online ART    *)
(* clusterer that keeps a prototype store, a topology graph over the        *)
(* prototype tags and a cycle counter, and prunes stale prototypes.         *)
(*                                                                          *)
(* Numbers.  Weights and inputs are reals in the program.  Here a real r    *)
(* is the integer r * One, with One a power of two large enough that every  *)
(* weight the bounded runs can produce is represented exactly (each learn   *)
(* call halves at most twice, see FuzzyMin).                                *)
(*                                                                          *)
(* The scoring functions choice and match and the prototype class live in   *)
(* the base package, which is not part of the sources at hand: a learn      *)
(* call receives their results T and M as arbitrary score sequences, one    *)
(* score per prototype, as their contract states.                           *)
(***************************************************************************)
EXTENDS Integers, Sequences, FiniteSets, TLC

(* ------------------------------ bounds -------------------------------- *)
MaxCycle == 4          \* learn calls per run
MaxPhi   == 3          \* phi is drawn from 0..MaxPhi
MidTau   == 2          \* tau is 0, MidTau or MaxCycle (no pruning in the run)
MaxScore == 2          \* activation scores T are drawn from 0..MaxScore
MaxMatch == 1          \* match scores M are drawn from 0..MaxMatch
Dim      == 1          \* dimension of the input vectors

(* -------------------------- configuration ----------------------------- *)
vigilance == 1         \* match threshold, on the scale of M
betaNum   == 1         \* beta  = betaNum / betaDen   (first winner rate)
betaDen   == 2
beta2Num  == 1         \* beta2 = beta2Num / beta2Den (second winner rate)
beta2Den  == 4

One       == 2 ^ (2 * MaxCycle)
InputVals == {One \div 2, One}
Inputs    == [1..Dim -> InputVals]
TauVals   == {0, MidTau, MaxCycle}
\* phi is read by __prune only: one value is enough when tau keeps the
\* run from pruning
PhiVals(t) == IF t >= MaxCycle THEN {0} ELSE 0..MaxPhi
TScores   == 0..MaxScore
MScores   == 0..MaxMatch
Exhausted == -1        \* the sentinel -1.0 written into T

VARIABLES
    prototypes,   \* self.prototypes: the store, a sequence of prototypes
    network,      \* self.network: the topology graph
    cycle,        \* self.cycle
    phi,          \* self.phi
    tau,          \* self.tau
    last,         \* observation of the most recent learn call
    issued,       \* every tag handed to __add_prototype so far, in order
    selected      \* <<tag, cycle>>: the cycle a prototype last won in

vars == <<prototypes, network, cycle, phi, tau, last, issued, selected>>

(* ------------------------------ helpers ------------------------------- *)
Range(s) == {s[j] : j \in 1..Len(s)}

Tags(ps) == {ps[j].tag : j \in 1..Len(ps)}

Min2(a, b) == IF a < b THEN a ELSE b

\* np.minimum(input, weights)
Minimum(input, weights) == [k \in 1..Dim |-> Min2(input[k], weights[k])]

\* (1 - b)*weights + b*np.minimum(input, weights), with b = num/den
FuzzyMin(num, den, input, weights) ==
    [k \in 1..Dim |->
        ((den - num) * weights[k] + num * Minimum(input, weights)[k]) \div den]

\* f"p{self.cycle}"
Tag(c) == "p" \o ToString(c)

\* prototype(weights, tag, birth)
prototype(weights, tag, birth) ==
    [weights |-> weights, tag |-> tag, birth |-> birth,
     lastactive |-> birth, counter |-> 0]

(* --------------------------- topology graph --------------------------- *)
EmptyGraph == [nodes |-> <<>>, edges |-> {}]

\* Graph.add_node: a node already present is left alone
AddNode(net, tag) ==
    IF tag \in Range(net.nodes) THEN net
    ELSE [net EXCEPT !.nodes = Append(@, tag)]

\* Graph.add_edge: adds missing endpoints, then the undirected edge
AddEdge(net, u, v) ==
    [AddNode(AddNode(net, u), v) EXCEPT !.edges = @ \cup {{u, v}}]

NodeIndex(net, tag) == CHOOSE j \in 1..Len(net.nodes) : net.nodes[j] = tag

\* list(self.network.edges): every edge once, reported from the endpoint
\* that is earlier in the node order
EdgeList(net) ==
    {<<u, v>> \in Range(net.nodes) \X Range(net.nodes) :
        /\ {u, v} \in net.edges
        /\ NodeIndex(net, u) <= NodeIndex(net, v)}

\* Graph.remove_nodes_from: drops the nodes and their incident edges,
\* unknown tags are ignored
RemoveNodesFrom(net, tags) ==
    LET keep(t) == t \notin tags
    IN  [nodes |-> SelectSeq(net.nodes, keep),
         edges |-> {e \in net.edges : e \cap tags = {}}]

(* --------------------------- __add_prototype -------------------------- *)
\* variant: the prototype is stored but no node is added
AddPrototypeNoNode(ps, net, weights, tag, birth) ==
    [prototypes |-> Append(ps, prototype(weights, tag, birth)),
     network    |-> net]

AddPrototype(ps, net, weights, tag, birth) ==
    [prototypes |-> Append(ps, prototype(weights, tag, birth)),
     network    |-> AddNode(net, tag)]

(* ------------------------------- __prune ------------------------------ *)
RemoveAt(s, i) == SubSeq(s, 1, i - 1) \o SubSeq(s, i + 1, Len(s))

\* variant: the index moves on after a deletion (no i -= 1)
RECURSIVE PruneLoopSkip(_, _, _, _, _)
PruneLoopSkip(ps, i, deletedtags, c, f) ==
    IF i > Len(ps) THEN [prototypes |-> ps, deletedtags |-> deletedtags]
    ELSE IF (c - ps[i].lastactive) > f
         THEN PruneLoopSkip(RemoveAt(ps, i), i + 1,
                            deletedtags \cup {ps[i].tag}, c, f)
         ELSE PruneLoopSkip(ps, i + 1, deletedtags, c, f)

\* variant: a prototype idle for exactly phi cycles is deleted as well
RECURSIVE PruneLoopAtPhi(_, _, _, _, _)
PruneLoopAtPhi(ps, i, deletedtags, c, f) ==
    IF i > Len(ps) THEN [prototypes |-> ps, deletedtags |-> deletedtags]
    ELSE IF (c - ps[i].lastactive) >= f
         THEN PruneLoopAtPhi(RemoveAt(ps, i), (i - 1) + 1,
                             deletedtags \cup {ps[i].tag}, c, f)
         ELSE PruneLoopAtPhi(ps, i + 1, deletedtags, c, f)

RECURSIVE PruneLoop(_, _, _, _, _)
PruneLoop(ps, i, deletedtags, c, f) ==
    IF i > Len(ps) THEN [prototypes |-> ps, deletedtags |-> deletedtags]
    ELSE IF (c - ps[i].lastactive) > f
         THEN PruneLoop(RemoveAt(ps, i), (i - 1) + 1,
                        deletedtags \cup {ps[i].tag}, c, f)
         ELSE PruneLoop(ps, i + 1, deletedtags, c, f)

\* variant: the graph is rebuilt from the surviving tags, without edges
PruneRebuild(ps, net, c, f) ==
    LET r == PruneLoop(ps, 1, {}, c, f)
    IN  [prototypes |-> r.prototypes,
         network    |-> [RemoveNodesFrom(net, r.deletedtags)
                            EXCEPT !.edges = {}]]

Prune(ps, net, c, f) ==
    LET r == PruneLoop(ps, 1, {}, c, f)
    IN  [prototypes |-> r.prototypes,
         network    |-> RemoveNodesFrom(net, r.deletedtags)]

(* -------------------------------- learn ------------------------------- *)
\* all(val < 0.0 for val in T)
AllExhausted(T) == \A j \in 1..Len(T) : T[j] < 0

\* any(val > 0 for val in T)
AnyPositive(T) == \E j \in 1..Len(T) : T[j] > 0

\* variant: the last position of the largest score
IndexOfMaxLast(T) ==
    CHOOSE j \in 1..Len(T) :
        /\ \A k \in 1..Len(T) : T[k] <= T[j]
        /\ \A k \in (j + 1)..Len(T) : T[k] < T[j]

\* T.index(max(T)): the first position of the largest score
IndexOfMax(T) ==
    CHOOSE j \in 1..Len(T) :
        /\ \A k \in 1..Len(T) : T[k] <= T[j]
        /\ \A k \in 1..(j - 1) : T[k] < T[j]

\* the inner while loop: 0 when no second winner resonates
RECURSIVE SecondWinnerSearch(_, _)
SecondWinnerSearch(T, M) ==
    IF AllExhausted(T) THEN [ISW |-> 0, T |-> T, tests |-> 0]
    ELSE LET ISW == IndexOfMax(T)
         IN  IF M[ISW] >= vigilance
             THEN [ISW |-> ISW, T |-> T, tests |-> 1]
             ELSE [SecondWinnerSearch([T EXCEPT ![ISW] = Exhausted], M)
                      EXCEPT !.tests = @ + 1]

\* variant: the vigilance test is strict
RECURSIVE FirstWinnerSearchStrict(_, _)
FirstWinnerSearchStrict(T, M) ==
    IF AllExhausted(T) THEN [IFW |-> 0, T |-> T, tests |-> 0]
    ELSE LET IFW == IndexOfMax(T)
         IN  IF M[IFW] > vigilance
             THEN [IFW |-> IFW, T |-> [T EXCEPT ![IFW] = Exhausted],
                   tests |-> 1]
             ELSE [FirstWinnerSearchStrict([T EXCEPT ![IFW] = Exhausted], M)
                      EXCEPT !.tests = @ + 1]

\* variant: the first winner's score is not overwritten with the sentinel
RECURSIVE FirstWinnerSearchNoMark(_, _)
FirstWinnerSearchNoMark(T, M) ==
    IF AllExhausted(T) THEN [IFW |-> 0, T |-> T, tests |-> 0]
    ELSE LET IFW == IndexOfMax(T)
         IN  IF M[IFW] >= vigilance
             THEN [IFW |-> IFW, T |-> T, tests |-> 1]
             ELSE [FirstWinnerSearchNoMark([T EXCEPT ![IFW] = Exhausted], M)
                      EXCEPT !.tests = @ + 1]

\* the outer while loop up to the resonance test: 0 when nobody resonates
RECURSIVE FirstWinnerSearch(_, _)
FirstWinnerSearch(T, M) ==
    IF AllExhausted(T) THEN [IFW |-> 0, T |-> T, tests |-> 0]
    ELSE LET IFW == IndexOfMax(T)
         IN  IF M[IFW] >= vigilance
             THEN [IFW |-> IFW, T |-> [T EXCEPT ![IFW] = Exhausted],
                   tests |-> 1]
             ELSE [FirstWinnerSearch([T EXCEPT ![IFW] = Exhausted], M)
                      EXCEPT !.tests = @ + 1]

\* the prototypes outside skip that pass vigilance and have the largest
\* activation among those that do (what the scores say, not what the loops
\* do)
Best(T, M, skip) ==
    LET passing == {j \in 1..Len(M) : M[j] >= vigilance} \ skip
    IN  {j \in passing : \A k \in passing : T[k] <= T[j]}

\* the smallest position in a set of store positions, 0 for the empty set
Oldest(J) == IF J = {} THEN 0 ELSE CHOOSE j \in J : \A k \in J : j <= k

\* variant: the second search starts from the scores as choice returned
\* them, with only the first winner marked
SearchFreshScores(T, M) ==
    LET first  == FirstWinnerSearch(T, M)
        second == SecondWinnerSearch(
                      [T EXCEPT ![first.IFW] = Exhausted], M)
    IN  [IFW      |-> first.IFW,
         ISW      |-> IF first.IFW = 0 THEN 0 ELSE second.ISW,
         anyLeft  |-> IF first.IFW = 0 THEN AnyPositive(first.T)
                      ELSE AnyPositive(second.T),
         tests    |-> IF first.IFW = 0 THEN first.tests
                      ELSE first.tests + second.tests,
         resonant |-> \E j \in 1..Len(M) : M[j] >= vigilance,
         firstIsBest |-> first.IFW \in Best(T, M, {}),
         oldest   |-> Oldest(Best(T, M, {})),
         oldest2  |-> Oldest(Best(T, M, {first.IFW})),
         tie      |-> Cardinality(Best(T, M, {})) >= 2]

\* What the two while loops of learn decide for the scores T and M: the
\* first winner IFW and the second winner ISW (positions in the store, 0
\* for none), whether any(val > 0 for val in T) holds once they end, and
\* the number of vigilance tests they made.  The other fields describe the
\* scores themselves: whether some prototype passes vigilance (resonant),
\* whether the first winner is one of the best passing prototypes
\* (firstIsBest), the oldest of the best passing prototypes (oldest), the
\* oldest of the best passing ones besides the first winner (oldest2), and
\* whether several passing prototypes share the largest activation (tie).
Search(T, M) ==
    LET first  == FirstWinnerSearch(T, M)
        second == SecondWinnerSearch(first.T, M)
    IN  [IFW      |-> first.IFW,
         ISW      |-> IF first.IFW = 0 THEN 0 ELSE second.ISW,
         anyLeft  |-> IF first.IFW = 0 THEN AnyPositive(first.T)
                      ELSE AnyPositive(second.T),
         tests    |-> IF first.IFW = 0 THEN first.tests
                      ELSE first.tests + second.tests,
         resonant |-> \E j \in 1..Len(M) : M[j] >= vigilance,
         firstIsBest |-> first.IFW \in Best(T, M, {}),
         oldest   |-> Oldest(Best(T, M, {})),
         oldest2  |-> Oldest(Best(T, M, {first.IFW})),
         tie      |-> Cardinality(Best(T, M, {})) >= 2]

\* super().choice(input) and super().match(input) return one score per
\* prototype; every pair of score sequences is possible
Searches(n) ==
    {Search(T, M) : T \in [1..n -> TScores], M \in [1..n -> MScores]}

\* Searches, tabulated once for every store size a run can reach
SearchTable == [n \in 0..MaxCycle |-> Searches(n)]

\* weights of the second winner, computed in the body of the inner loop
SecondWinnerWeights(input, wFW, wSW) ==
    FuzzyMin(betaNum, betaDen, input, wFW)

\* variant: the update is applied to every prototype's counter
FirstWinnerUpdateAll(ps, input, IFW) ==
    [j \in 1..Len(ps) |->
        IF j = IFW
        THEN [ps[j] EXCEPT !.weights = FuzzyMin(betaNum, betaDen, input, @),
                           !.counter = @ + 1]
        ELSE [ps[j] EXCEPT !.counter = @ + 1]]

\* the body of the outer loop when the first winner IFW resonates
FirstWinnerUpdate(ps, input, IFW) ==
    [ps EXCEPT ![IFW].weights = FuzzyMin(betaNum, betaDen, input, @),
               ![IFW].counter = @ + 1]

\* the body of the inner loop when the second winner ISW resonates
SecondWinnerUpdate(ps, net, input, IFW, ISW) ==
    [prototypes |-> [ps EXCEPT ![ISW].weights =
                       SecondWinnerWeights(input, ps[IFW].weights, @)],
     network    |-> IF \/ <<ps[IFW].tag, ps[ISW].tag>> \notin EdgeList(net)
                       \/ <<ps[ISW].tag, ps[IFW].tag>> \notin EdgeList(net)
                    THEN AddEdge(net, ps[IFW].tag, ps[ISW].tag)
                    ELSE net]

\* the else branch of learn up to and including the loops
Resonate(ps, net, input, s) ==
    IF s.IFW = 0
    THEN [prototypes |-> ps, network |-> net]
    ELSE IF s.ISW = 0
         THEN [prototypes |-> FirstWinnerUpdate(ps, input, s.IFW),
               network    |-> net]
         ELSE SecondWinnerUpdate(FirstWinnerUpdate(ps, input, s.IFW),
                                 net, input, s.IFW, s.ISW)

\* variant: the tag is derived from the size of the store
CreateTagBySize(r, s, c, input) ==
    IF ~ s.anyLeft
    THEN AddPrototype(r.prototypes, r.network, input,
                      Tag(Len(r.prototypes) + 1), c)
    ELSE r

\* if not any(val > 0 for val in T): self.__add_prototype(...)
CreateIfNoneLeft(r, s, c, input) ==
    IF ~ s.anyLeft
    THEN AddPrototype(r.prototypes, r.network, input, Tag(c), c)
    ELSE r

\* variant: the first prototype is tagged with the cycle before the call
LearningStepOldTag(ps, net, c, input, s) ==
    IF Len(ps) = 0
    THEN AddPrototype(ps, net, input, Tag(c - 1), c)
    ELSE CreateIfNoneLeft(Resonate(ps, net, input, s), s, c, input)

\* learn up to the pruning test: the learning step
LearningStep(ps, net, c, input, s) ==
    IF Len(ps) = 0
    THEN AddPrototype(ps, net, input, Tag(c), c)
    ELSE CreateIfNoneLeft(Resonate(ps, net, input, s), s, c, input)

\* whether the learning step calls __add_prototype
Creates(ps, s) == Len(ps) = 0 \/ ~ s.anyLeft

\* variant: self.cycle =+ 1
NextCycleAssign(c) == 1

\* self.cycle += 1
NextCycle(c) == c + 1

\* variant: pruning starts one cycle early
PruneDueEarly(c, t) == c >= t

\* if self.cycle > self.tau
PruneDue(c, t) == c > t

NoCall ==
    [input |-> <<>>, failed |-> FALSE,
     resonant |-> FALSE, IFW |-> 0, ISW |-> 0,
     tests |-> 0, firstIsBest |-> FALSE, oldest |-> 0, oldest2 |-> 0,
     tie |-> FALSE,
     created |-> FALSE, pre |-> <<>>, preNet |-> EmptyGraph,
     mid |-> <<>>, midNet |-> EmptyGraph]

Init ==
    /\ prototypes = <<>>
    /\ network = EmptyGraph
    /\ cycle = 0
    /\ tau \in TauVals
    /\ phi \in PhiVals(tau)
    /\ last = NoCall
    /\ issued = <<>>
    /\ selected = {}

\* the selections after a learning step: the winners are selected in
\* cycle c, prototypes that left the store earlier are forgotten
Selections(sel, ps, mid, s, c) ==
    LET winners == {ps[j].tag : j \in {s.IFW, s.ISW} \ {0}}
    IN  {x \in sel : x[1] \in Tags(mid) \ winners}
            \cup {<<t, c>> : t \in winners}

Learn ==
    /\ cycle < MaxCycle
    /\ \E s \in SearchTable[Len(prototypes)] :
       \E input \in Inputs :
       \E c \in {NextCycle(cycle)} :
       \E step \in {LearningStep(prototypes, network, c, input, s)} :
       \E done \in {IF PruneDue(c, tau)
                     THEN Prune(step.prototypes, step.network, c, phi)
                     ELSE step} :
          /\ cycle' = c
          /\ prototypes' = done.prototypes
          /\ network' = done.network
          /\ issued' = IF Creates(prototypes, s) THEN Append(issued, Tag(c))
                       ELSE issued
          /\ selected' = Selections(selected, prototypes,
                                    step.prototypes, s, c)
          /\ last' = [input    |-> input,
                      failed   |-> FALSE,
                      resonant |-> s.resonant,
                      IFW      |-> s.IFW,
                      ISW      |-> s.ISW,
                      tests    |-> s.tests,
                      firstIsBest |-> s.firstIsBest,
                      oldest   |-> s.oldest,
                      oldest2  |-> s.oldest2,
                      tie      |-> s.tie,
                      created  |-> Creates(prototypes, s),
                      pre      |-> prototypes,
                      preNet   |-> network,
                      mid      |-> step.prototypes,
                      midNet   |-> step.network]
    /\ UNCHANGED <<phi, tau>>

Next == Learn

Spec == Init /\ [][Next]_vars

\* inputs whose dimension is not the one the prototypes were built with
BadInputs == [1..(Dim + 1) -> InputVals]

\* super().choice(input) raises on an input of the wrong dimension
Raises(ps, input) == Len(ps) > 0 /\ Len(input) # Dim

\* learn on an input that makes the scoring raise: the call is left at
\* line 124, after self.cycle += 1
LearnFail ==
    /\ cycle < MaxCycle
    /\ \E input \in BadInputs :
          /\ Raises(prototypes, input)
          /\ cycle' = NextCycle(cycle)
          /\ last' = [NoCall EXCEPT !.failed = TRUE,
                                    !.input = input,
                                    !.pre = prototypes,
                                    !.preNet = network,
                                    !.mid = prototypes,
                                    !.midNet = network]
    /\ UNCHANGED <<prototypes, network, phi, tau, issued, selected>>

NextErr == Learn \/ LearnFail

SpecErr == Init /\ [][NextErr]_vars

(* ------------------------------- claims ------------------------------- *)
Stale(p) == (cycle - p.lastactive) > phi

Called == cycle > 0

Pruned == Len(prototypes) < Len(last.mid)

\* C1: after every learn call the node set of the topology graph is exactly
\* the set of tags of the prototypes in the store, one node per prototype.
C1_NodesMirrorStore ==
    /\ Range(network.nodes) = Tags(prototypes)
    /\ Len(network.nodes) = Len(prototypes)

\* a call that created a prototype and pruned, leaving a non-empty store
C1_Witness ==
    /\ last.created
    /\ Pruned
    /\ prototypes # <<>>

\* C2: on a non-empty store a learn call creates a prototype iff no
\* prototype has match >= vigilance; when a first winner resonates the
\* learning step adds no prototype and no graph node.
C2_CreatesIffNoResonance ==
    (Called /\ last.pre # <<>>) =>
        /\ last.created <=> ~ last.resonant
        /\ last.IFW # 0 =>
              /\ Len(last.mid) = Len(last.pre)
              /\ last.midNet.nodes = last.preNet.nodes

\* C3: a prototype selected as first or second winner has lastactive equal
\* to the current cycle when the learning step ends.
C3_WinnersAreRefreshed ==
    \A j \in {last.IFW, last.ISW} \ {0} : last.mid[j].lastactive = cycle

\* C4: the second winner's new weights are
\* (1 - beta2)*w2 + beta2*min(input, w2), w2 its weights before the call.
C4_SecondWinnerOwnRule ==
    last.ISW # 0 =>
        \A k \in 1..Dim :
            beta2Den * last.mid[last.ISW].weights[k] =
                (beta2Den - beta2Num) * last.pre[last.ISW].weights[k]
                + beta2Num * Min2(last.input[k],
                                  last.pre[last.ISW].weights[k])

\* C5: after a learn call that ends with cycle > tau no stale prototype
\* (cycle - lastactive > phi) is left in the store or in the graph, whatever
\* the branch taken and however many prototypes were stale.
C5_StaleAbsent ==
    cycle > tau =>
        /\ \A j \in 1..Len(prototypes) : ~ Stale(prototypes[j])
        /\ \A j \in 1..Len(last.mid) :
              Stale(last.mid[j]) =>
                  /\ last.mid[j].tag \notin Tags(prototypes)
                  /\ last.mid[j].tag \notin Range(network.nodes)

\* a pruning call that met two stale prototypes next to each other
C5_Witness ==
    /\ cycle > tau
    /\ \E j \in 1..(Len(last.mid) - 1) :
          Stale(last.mid[j]) /\ Stale(last.mid[j + 1])

\* C6: while cycle <= tau a learn call removes nothing: every prototype of
\* the store stays in place and the graph keeps all its nodes and edges.
C6_NoPruneInWarmup ==
    (Called /\ cycle <= tau) =>
        /\ Len(last.pre) <= Len(prototypes)
        /\ \A j \in 1..Len(last.pre) : prototypes[j].tag = last.pre[j].tag
        /\ Range(last.preNet.nodes) \subseteq Range(network.nodes)
        /\ last.preNet.edges \subseteq network.edges

\* a warm-up call that kept a stale prototype and an existing edge
C6_Witness ==
    /\ Called
    /\ cycle <= tau
    /\ last.preNet.edges # {}
    /\ \E j \in 1..Len(prototypes) : Stale(prototypes[j])

\* C7: the tags in the store are pairwise distinct and a tag once assigned
\* is never assigned again, also after its prototype was pruned.
C7_TagsUnique ==
    /\ \A i, j \in 1..Len(prototypes) :
          prototypes[i].tag = prototypes[j].tag => i = j
    /\ \A i, j \in 1..Len(issued) : issued[i] = issued[j] => i = j

\* a prototype created after an earlier one was pruned
C7_Witness ==
    /\ last.created
    /\ last.pre # <<>>
    /\ \E t \in Range(issued) : t \notin Tags(last.mid)

\* C8: the cycle counter starts at 0 and every learn call adds exactly 1.
C8_CycleCountsCalls ==
    (cycle = 0) /\ [][cycle' = cycle + 1]_vars

\* calls through the empty, the one-winner, the two-winner and the
\* no-resonance branch have all been counted; the last one pruned
C8_Witness ==
    /\ cycle = MaxCycle
    /\ last.ISW # 0
    /\ Pruned

\* C9: a learn call adds at most one edge, only when a first and a second
\* winner resonate, between exactly their tags; if that edge is already
\* there the learning step leaves the edge count and the node count alone.
C9_OneEdgePerCall ==
    LET added == last.midNet.edges \ last.preNet.edges
        both  == last.IFW # 0 /\ last.ISW # 0
        pair  == {last.pre[last.IFW].tag, last.pre[last.ISW].tag}
    IN  /\ Cardinality(added) <= 1
        /\ added # {} => (both /\ added = {pair})
        /\ (both /\ pair \in last.preNet.edges) =>
              /\ Cardinality(last.midNet.edges)
                    = Cardinality(last.preNet.edges)
              /\ Len(last.midNet.nodes) = Len(last.preNet.nodes)

\* C10: an edge that was in the graph before a learn call, or that the call
\* added, is in the graph after the call exactly when both its endpoints
\* are still in the store; when an endpoint is pruned the edge and that
\* node are gone together.
C10_EdgeLivesWithEndpoints ==
    \A e \in last.preNet.edges \cup last.midNet.edges :
        /\ e \in network.edges <=> e \subseteq Tags(prototypes)
        /\ \A t \in e : t \notin Tags(prototypes) =>
                            t \notin Range(network.nodes)

\* a pruning call that removed one endpoint of an edge and kept the other
C10_Witness ==
    /\ Pruned
    /\ \E e \in last.preNet.edges :
          /\ e \notin network.edges
          /\ e \cap Tags(prototypes) # {}

\* C11: a learn call on an empty store creates exactly one prototype,
\* tagged p<cycle>, born in that cycle, with the input as weights, and one
\* graph node; the first call of a fresh module leaves exactly the
\* prototype "p1" with birth 1, the node "p1" and no edge.
C11_FirstPrototype ==
    (Called /\ ~ last.failed /\ last.pre = <<>>) =>
        /\ Len(last.mid) = 1
        /\ last.mid[1].tag = "p" \o ToString(cycle)
        /\ last.mid[1].birth = cycle
        /\ last.mid[1].weights = last.input
        /\ last.midNet = [nodes |-> <<last.mid[1].tag>>, edges |-> {}]
        /\ cycle = 1 =>
              /\ Len(prototypes) = 1
              /\ prototypes[1].tag = "p1"
              /\ prototypes[1].birth = 1
              /\ prototypes[1].weights = last.input
              /\ network = [nodes |-> <<"p1">>, edges |-> {}]

\* a call that found the store emptied by pruning
C11_Witness ==
    /\ cycle > 1
    /\ last.pre = <<>>
    /\ last.created

\* C12: a learn call that fails leaves the cycle counter, the store and
\* the graph as they were before the call.
C12_FailedCallCommitsNothing ==
    [][last'.failed => UNCHANGED <<cycle, prototypes, network>>]_vars

\* C13: when some prototype passes vigilance the first winner is one of
\* the passing prototypes with the largest activation; its counter grows
\* by 1, its weights become (1 - beta)*w + beta*min(input, w), and no other
\* prototype's counter grows.
C13_FirstWinnerRule ==
    (Called /\ last.resonant) =>
        /\ last.IFW # 0
        /\ last.firstIsBest
        /\ last.mid[last.IFW].counter = last.pre[last.IFW].counter + 1
        /\ \A k \in 1..Dim :
              betaDen * last.mid[last.IFW].weights[k] =
                  (betaDen - betaNum) * last.pre[last.IFW].weights[k]
                  + betaNum * Min2(last.input[k],
                                   last.pre[last.IFW].weights[k])
        /\ \A j \in 1..Len(last.pre) :
              j # last.IFW => last.mid[j].counter = last.pre[j].counter

\* a first winner found after a more active prototype failed vigilance,
\* whose weights moved
C13_Witness ==
    /\ last.IFW # 0
    /\ last.tests >= 2
    /\ last.ISW = 0
    /\ last.mid[last.IFW].weights # last.pre[last.IFW].weights

\* C14: a prototype selected as first or second winner in the current
\* cycle or in one of the phi cycles before it is not removed by the
\* pruning step of the current call.
C14_RecentWinnersKept ==
    \A j \in 1..Len(last.mid) :
        (\E x \in selected :
            x[1] = last.mid[j].tag /\ cycle - x[2] <= phi)
        => last.mid[j].tag \in Tags(prototypes)

\* C15: every prototype that is neither the first nor the second winner
\* leaves the learning step unchanged, and is unchanged after the call if
\* pruning keeps it.
C15_OthersUntouched ==
    \A j \in 1..Len(last.pre) :
        j \notin {last.IFW, last.ISW} =>
            /\ last.mid[j] = last.pre[j]
            /\ last.pre[j].tag \in Tags(prototypes) =>
                  \E k \in 1..Len(prototypes) : prototypes[k] = last.pre[j]

\* a call with two winners and pruning that kept a third prototype
C15_Witness ==
    /\ last.ISW # 0
    /\ Pruned
    /\ \E j \in 1..Len(last.pre) :
          /\ j \notin {last.IFW, last.ISW}
          /\ last.pre[j].tag \in Tags(prototypes)

Fresh(p) == ~ Stale(p)

\* C16: the pruning step leaves exactly the prototypes that are not stale,
\* in the order they had.
C16_PruneIsFilter ==
    (Called /\ ~ last.failed /\ cycle > tau) =>
        prototypes = SelectSeq(last.mid, Fresh)

\* a pruning step that removed two neighbours and kept a prototype
C16_Witness ==
    /\ cycle > tau
    /\ prototypes # <<>>
    /\ \E j \in 1..(Len(last.mid) - 1) :
          Stale(last.mid[j]) /\ Stale(last.mid[j + 1])

\* C17: the two searches of a learn call make at most one vigilance test
\* per prototype of the store.
C17_TestsBounded ==
    last.tests <= Len(last.pre)

\* a call that tested every one of three prototypes and found both winners
C17_Witness ==
    /\ Len(last.pre) >= 3
    /\ last.tests = Len(last.pre)
    /\ last.ISW # 0

\* C18: the second winner is never the first winner, and no edge of the
\* graph joins a tag to itself.
C18_NoSelfLoop ==
    /\ last.ISW # 0 => last.ISW # last.IFW
    /\ \A e \in network.edges : Cardinality(e) = 2

\* a call with two winners that left an edge in the graph
C18_Witness ==
    /\ last.ISW # 0
    /\ last.IFW # 0
    /\ network.edges # {}

\* C19: among the passing prototypes that share the largest activation the
\* oldest is the first winner, and the oldest of the best remaining passing
\* prototypes is the second winner.
C19_OldestWinsTies ==
    /\ last.oldest # 0 => last.IFW = last.oldest
    /\ last.IFW # 0 => last.ISW = last.oldest2

\* equally activated passing prototypes: the older became first winner, a
\* younger one second winner
C19_Witness ==
    /\ last.tie
    /\ last.IFW # 0
    /\ last.IFW < last.ISW

TypeOK ==
    /\ cycle \in 0..MaxCycle
    /\ Len(prototypes) <= MaxCycle
=============================================================================
